---- MODULE Spec2Model ----
(***************************************************************************)
(* Wine-quality dashboard (apps/wine.py): the prediction client            *)
(* get_prediction and the response normalisation of the "Predict" button   *)
(* handler, as a state machine over the Streamlit script's reruns.         *)
(*                                                                         *)
(* Floats are modelled exactly on the grid of binary fractions k / 2^7:    *)
(* every grid point is a double, so "%.2f" formatting (correctly rounded,  *)
(* ties to even on the exact binary value) is computed as Python computes  *)
(* it.  JSON / Python values are records tagged by their type.             *)
(***************************************************************************)
EXTENDS Integers, Sequences, FiniteSets, TLC

VARIABLES api_url, feat, pc, posts, payload, net, result, extracted, pred_value, raised, uncaught, ui

vars == <<api_url, feat, pc, posts, payload, net, result, extracted, pred_value, raised, uncaught, ui>>

----------------------------------------------------------------------------
(* Bounds *)

\* decimal widget values of the dashboard run are -MaxSmallDecimal..MaxSmallDecimal (in 1/128) and the widget defaults
MaxSmallDecimal == 1
\* decimal values of the payload-format run are -MaxDecimal..MaxDecimal (in 1/128)
MaxDecimal == 140
\* is_red widget values are -1..MaxIsRed
MaxIsRed == 2
\* JSON numbers of the responses are 0..MaxNum (in 1/128)
MaxNum == 1
\* attempts a retrying client would make
MaxAttempts == 3

----------------------------------------------------------------------------
(* Python / JSON values *)

FloatDen == 2^7

None == [t |-> "null"]
JNum(k) == [t |-> "num", n |-> k]
JInt(k) == [t |-> "int", n |-> k]
JStr(s) == [t |-> "str", s |-> s]
JBool(b) == [t |-> "bool", b |-> b]
JList(items) == [t |-> "list", items |-> items]
JObj(f) == [t |-> "obj", fields |-> f]

\* pred_value before its first assignment
Unbound == [t |-> "unbound"]

Chars(s) ==
  CASE s = "Unknown" -> <<"U", "n", "k", "n", "o", "w", "n">>
    [] s = "not-a-number" -> <<"n", "o", "t", "-", "a", "-", "n", "u", "m", "b", "e", "r">>
    [] s = "5.75" -> <<"5", ".", "7", "5">>
    [] s = "v1" -> <<"v", "1">>
    [] OTHER -> <<>>

\* bool(x): the truth value `if result:` tests
Truthy(v) ==
  CASE v.t = "null" -> FALSE
    [] v.t = "num" -> v.n # 0
    [] v.t = "int" -> v.n # 0
    [] v.t = "str" -> Len(v.s) > 0
    [] v.t = "bool" -> v.b
    [] v.t = "list" -> Len(v.items) > 0
    [] v.t = "obj" -> DOMAIN v.fields # {}
    [] OTHER -> FALSE

\* dict.get(key, default)
DictGet(d, key, default) ==
  IF key \in DOMAIN d.fields THEN d.fields[key] ELSE default

----------------------------------------------------------------------------
(* f"{x:.2f}" and float(s) *)

DigitChars == <<"0", "1", "2", "3", "4", "5", "6", "7", "8", "9">>

DigitChar(d) == DigitChars[d + 1]

DigitVal(c) == (CHOOSE i \in 1..10 : DigitChars[i] = c) - 1

IsDigit(c) == \E i \in 1..10 : DigitChars[i] = c

RECURSIVE Digits(_)
Digits(n) == IF n < 10 THEN <<DigitChar(n)>> ELSE Digits(n \div 10) \o <<DigitChar(n % 10)>>

\* variant: the hundredths of |k| / 128 truncated, not rounded
Hundredths_Truncate(k) ==
  LET a == IF k < 0 THEN -k ELSE k
  IN (100 * a) \div FloatDen

\* the number of hundredths nearest to |k| / 128, ties to even
Hundredths(k) ==
  LET a == IF k < 0 THEN -k ELSE k
      q == (100 * a) \div FloatDen
      r == (100 * a) % FloatDen
  IN IF 2 * r > FloatDen \/ (2 * r = FloatDen /\ q % 2 = 1) THEN q + 1 ELSE q

\* the sign, the integer digits, the point and two fractional digits of h hundredths
FormatHundredths(k, h) ==
  (IF k < 0 THEN <<"-">> ELSE <<>>)
    \o Digits(h \div 100) \o <<".">> \o <<DigitChar((h \div 10) % 10), DigitChar(h % 10)>>

\* f"{x:.2f}" of the float k / 128, as a sequence of characters
Format2f(k) == FormatHundredths(k, Hundredths(k))

RECURSIVE DigitsToNat(_)
DigitsToNat(ds) ==
  IF Len(ds) = 0 THEN 0
  ELSE 10 * DigitsToNat(SubSeq(ds, 1, Len(ds) - 1)) + DigitVal(ds[Len(ds)])

RECURSIVE Pow10(_)
Pow10(n) == IF n = 0 THEN 1 ELSE 10 * Pow10(n - 1)

Unsigned(s) == IF Len(s) > 0 /\ s[1] = "-" THEN SubSeq(s, 2, Len(s)) ELSE s

\* the plain decimal literals float() accepts: [-]digits[.digits], at least one digit
IsDecimalString(s) ==
  LET b == Unsigned(s)
      dots == {i \in 1..Len(b) : b[i] = "."}
  IN /\ \A i \in 1..Len(b) : IsDigit(b[i]) \/ b[i] = "."
     /\ Cardinality(dots) <= 1
     /\ \E i \in 1..Len(b) : IsDigit(b[i])

\* the number of digits after the point of an unsigned literal
FracLen(b) ==
  IF \E i \in 1..Len(b) : b[i] = "." THEN Len(b) - (CHOOSE i \in 1..Len(b) : b[i] = ".") ELSE 0

\* n / scale as the nearest multiple of 1/128
NearestGrid(n, scale) == (2 * n * FloatDen + scale) \div (2 * scale)

\* float(s) of a decimal literal, as the nearest multiple of 1/128
ParseFloat(s) ==
  IF Len(s) > 0 /\ s[1] = "-"
  THEN -NearestGrid(DigitsToNat(SelectSeq(Unsigned(s), IsDigit)), Pow10(FracLen(Unsigned(s))))
  ELSE NearestGrid(DigitsToNat(SelectSeq(s, IsDigit)), Pow10(FracLen(s)))

\* variant: any string converts
FloatRaises_Lenient(v) ==
  CASE v.t \in {"num", "int", "bool", "str"} -> "none"
    [] OTHER -> "TypeError"

\* the exception float(v) raises, "none" when it converts
FloatRaises(v) ==
  CASE v.t \in {"num", "int", "bool"} -> "none"
    [] v.t = "str" -> IF IsDecimalString(v.s) THEN "none" ELSE "ValueError"
    [] OTHER -> "TypeError"

\* float(v), in 1/128, where it converts
PyFloat(v) ==
  CASE v.t = "num" -> v.n
    [] v.t = "int" -> v.n * FloatDen
    [] v.t = "bool" -> IF v.b THEN FloatDen ELSE 0
    [] v.t = "str" -> IF IsDecimalString(v.s) THEN ParseFloat(v.s) ELSE 0
    [] OTHER -> 0

----------------------------------------------------------------------------
(* Exceptions *)

\* the classes an exception is an instance of
Mro(exc) ==
  CASE exc \in {"ConnectionError", "Timeout", "SSLError"} -> {exc, "RequestException", "OSError", "Exception"}
    [] exc = "JSONDecodeError" -> {"JSONDecodeError", "ValueError", "Exception"}
    [] exc = "none" -> {}
    [] OTHER -> {exc, "Exception"}

IsInstance(exc, cls) == cls \in Mro(exc)

\* except json.JSONDecodeError
JsonHandlerCatches(exc) == IsInstance(exc, "JSONDecodeError")

\* except requests.exceptions.RequestException
RequestHandlerCatches(exc) == IsInstance(exc, "RequestException")

\* variant: except ValueError
ParseHandlerCatches_ValueErrorOnly(exc) == IsInstance(exc, "ValueError")

\* except Exception, around the normalisation
ParseHandlerCatches(exc) == IsInstance(exc, "Exception")

----------------------------------------------------------------------------
(* What the script shows in the Prediction tab *)

StError(text) == [kind |-> "error", text |-> text, val |-> None]
StErrorExc(text, exc) == [kind |-> "error", text |-> text, val |-> [t |-> "exc", cls |-> exc]]
StWrite(text) == [kind |-> "write", text |-> text, val |-> None]
Metric(label, v) == [kind |-> "metric", text |-> label, val |-> v]
QualityEstimate(k) == [kind |-> "markdown", text |-> "### Quality Estimate", val |-> JStr(Format2f(k))]
Gauge(k) == [kind |-> "plotly_chart", text |-> "Quality Points", val |-> JNum(k)]
DebugJson(r) == [kind |-> "json", text |-> "Debug: View Raw Response", val |-> r]

Shown(kind) == \E i \in 1..Len(ui) : ui[i].kind = kind

----------------------------------------------------------------------------
(* Request construction *)

\* variant: `api_url is None`
UrlMissing_IsNone(url) == ~url.set

\* `not api_url`
UrlMissing(url) == ~url.set \/ url.val = ""

\* int(is_red) of the integer the is_red widget returns
PyInt(n) == n

BuildPayload(f) ==
  JObj([data |-> JObj([density |-> JStr(Format2f(f.density)),
                       volatile_acidity |-> JStr(Format2f(f.volatile_acidity)),
                       chlorides |-> JStr(Format2f(f.chlorides)),
                       is_red |-> JInt(PyInt(f.is_red)),
                       alcohol |-> JStr(Format2f(f.alcohol))])])

----------------------------------------------------------------------------
(* Response normalisation *)

EmptyDict == [k \in {} |-> None]

\* variant: the flat-list case tested before the nested one
Extract_FlatFirst(raw) ==
  IF raw.t = "list"
  THEN IF Len(raw.items) = 0
       THEN [exc |-> "IndexError", val |-> Unbound]
       ELSE [exc |-> "none", val |-> raw.items[1]]
  ELSE [exc |-> "none", val |-> raw]

\* the three-shape dispatch on raw_prediction
Extract(raw) ==
  IF raw.t = "list"
  THEN IF Len(raw.items) = 0
       THEN [exc |-> "IndexError", val |-> Unbound]
       ELSE IF raw.items[1].t = "list"
            THEN IF Len(raw.items[1].items) = 0
                 THEN [exc |-> "IndexError", val |-> Unbound]
                 ELSE [exc |-> "none", val |-> raw.items[1].items[1]]
            ELSE [exc |-> "none", val |-> raw.items[1]]
  ELSE [exc |-> "none", val |-> raw]

\* lines 123-134: the metadata lookups and the display of a converted value
ShowPrediction(res, v, value, release) ==
  IF release.t # "obj"
  THEN [exc |-> "AttributeError", extracted |-> v, pred |-> JNum(value), ui |-> <<>>]
  ELSE [exc |-> "none", extracted |-> v, pred |-> JNum(value),
        ui |-> <<Metric("Model Version", DictGet(release, "model_version_number", JStr(Chars("Unknown")))),
                 Metric("Response Time", DictGet(res, "model_time_in_ms", JInt(0))),
                 QualityEstimate(value),
                 Gauge(value)>>]

\* lines 117-121: the None check and float(pred_value), fexc the exception float raises
Convert(res, v, fexc) ==
  IF v = None
  THEN [exc |-> "none", extracted |-> None, pred |-> None,
        ui |-> <<StError("Could not extract a prediction value.")>>]
  ELSE IF fexc # "none"
  THEN [exc |-> fexc, extracted |-> v, pred |-> v, ui |-> <<>>]
  ELSE ShowPrediction(res, v, PyFloat(v), DictGet(res, "release", JObj(EmptyDict)))

\* the outcome ex of the shape dispatch, then the conversion
Dispatch(res, ex) ==
  IF ex.exc # "none"
  THEN [exc |-> ex.exc, extracted |-> Unbound, pred |-> Unbound, ui |-> <<>>]
  ELSE Convert(res, ex.val, FloatRaises(ex.val))

\* the body of the try block: the exception it raises, the value the shape dispatch
\* extracted, pred_value after float(), and what it displays
TryNormalize(res) ==
  IF res.t # "obj"
  THEN [exc |-> "AttributeError", extracted |-> Unbound, pred |-> Unbound, ui |-> <<>>]
  ELSE Dispatch(res, Extract(DictGet(res, "result", None)))

\* the try/except around the outcome n of the try block
Guarded(res, n) ==
  IF n.exc = "none"
  THEN [raised |-> "none", uncaught |-> "none", extracted |-> n.extracted, pred |-> n.pred, ui |-> n.ui]
  ELSE IF ParseHandlerCatches(n.exc)
  THEN [raised |-> n.exc, uncaught |-> "none", extracted |-> n.extracted, pred |-> n.pred,
        ui |-> n.ui \o <<StErrorExc("Error parsing API response", n.exc), DebugJson(res)>>]
  ELSE [raised |-> n.exc, uncaught |-> n.exc, extracted |-> n.extracted, pred |-> n.pred, ui |-> n.ui]

\* `if result:` with its try/except: everything after get_prediction returns
Handle(res) ==
  IF ~Truthy(res)
  THEN [raised |-> "none", uncaught |-> "none", extracted |-> Unbound, pred |-> Unbound, ui |-> <<>>]
  ELSE Guarded(res, TryNormalize(res))

----------------------------------------------------------------------------
(* Inputs: environment, widget values, network outcomes, response bodies *)

ApiUrls == {[set |-> FALSE, val |-> ""], [set |-> TRUE, val |-> ""], [set |-> TRUE, val |-> "https://model.example/predict"]}

DecimalFields == {"density", "volatile_acidity", "chlorides", "alcohol"}

\* value= of the five number_input widgets: 0.99, 0.25, 0.05, 1, 10.0 (0.99 and 0.05 as their
\* nearest grid points, which format to "0.99" and "0.05")
WidgetDefaults == [density |-> 127, volatile_acidity |-> 32, chlorides |-> 6, is_red |-> 1, alcohol |-> 1280]

SmallDecimals == (-MaxSmallDecimal)..MaxSmallDecimal

WideDecimals == (-MaxDecimal)..MaxDecimal

IsRedInputs == (-1)..MaxIsRed

TransportErrors == {"ConnectionError", "Timeout", "SSLError"}

Flat(v) == JList(<<v>>)

Nested(v) == JList(<<JList(<<v>>)>>)

Absent == [t |-> "absent"]

\* a JSON object with the three keys the dashboard reads, each present or absent
Obj(res, rel, tim) ==
  LET keys == (IF res = Absent THEN {} ELSE {"result"})
                \cup (IF rel = Absent THEN {} ELSE {"release"})
                \cup (IF tim = Absent THEN {} ELSE {"model_time_in_ms"})
  IN JObj([k \in keys |-> CASE k = "result" -> res [] k = "release" -> rel [] OTHER -> tim])

ScalarValues ==
  {JNum(k) : k \in 0..MaxNum}
    \cup {JStr(Chars("5.75")), JStr(Chars("not-a-number")), JStr(<<>>), JBool(TRUE), JObj(EmptyDict)}

ResultValues ==
  {Absent, None} \cup ScalarValues
    \cup {Flat(v) : v \in ScalarValues \cup {None}}
    \cup {Nested(v) : v \in ScalarValues \cup {None}}
    \cup {JList(<<>>), JList(<<JList(<<>>)>>), Nested(Flat(JNum(MaxNum)))}

ReleaseValues ==
  {Absent, None, JStr(Chars("v1")), JObj(EmptyDict), JObj([model_version_number |-> JStr(Chars("v1"))])}

TimeValues == {Absent, JInt(12)}

\* the results whose metadata is varied
CoreResults == {Absent, None, JNum(MaxNum), Flat(JNum(MaxNum)), JStr(Chars("not-a-number"))}

\* the values response.json() returns
Responses ==
  {Obj(r, Absent, Absent) : r \in ResultValues}
    \cup {Obj(r, rel, tim) : r \in CoreResults, rel \in ReleaseValues, tim \in TimeValues}
    \cup {None, JNum(0), JNum(MaxNum), JStr(<<>>), JStr(Chars("v1")), JBool(FALSE), JBool(TRUE),
          JList(<<>>), Flat(JNum(MaxNum))}

----------------------------------------------------------------------------
(* The dashboard *)

Init ==
  /\ api_url \in ApiUrls
  /\ feat = WidgetDefaults
  /\ pc = "idle"
  /\ posts = 0
  /\ payload = None
  /\ net = "none"
  /\ result = None
  /\ extracted = Unbound
  /\ pred_value = Unbound
  /\ raised = "none"
  /\ uncaught = "none"
  /\ ui = <<>>

\* a script run in which the Predict button is not pressed: nothing is called, the tab is empty
Rerun ==
  /\ pc' = "idle"
  /\ posts' = 0
  /\ payload' = None
  /\ net' = "none"
  /\ result' = None
  /\ extracted' = Unbound
  /\ pred_value' = Unbound
  /\ raised' = "none"
  /\ uncaught' = "none"
  /\ ui' = <<>>

\* the user edits a decimal number_input; the script reruns with predict_btn False
ChangeDecimal ==
  /\ pc # "inflight"
  /\ \E f \in DecimalFields, x \in SmallDecimals : feat' = [feat EXCEPT ![f] = x]
  /\ Rerun
  /\ UNCHANGED api_url

\* the user edits the is_red number_input (value=1, step=1: an integer, no min or max)
ChangeIsRed ==
  /\ pc # "inflight"
  /\ \E x \in IsRedInputs : feat' = [feat EXCEPT !.is_red = x]
  /\ Rerun
  /\ UNCHANGED api_url

\* the script run ends with what get_prediction showed and what the handler h did
Complete(outcome, ret, shown, h) ==
  /\ pc' = "done"
  /\ net' = outcome
  /\ result' = ret
  /\ extracted' = h.extracted
  /\ pred_value' = h.pred
  /\ raised' = h.raised
  /\ uncaught' = h.uncaught
  /\ ui' = shown \o h.ui
  /\ UNCHANGED <<api_url, feat>>

\* get_prediction has returned ret after showing shown; the rest of the script run
Finish(outcome, ret, shown) == Complete(outcome, ret, shown, Handle(ret))

\* Predict pressed, no endpoint: get_prediction returns None at once, `if result:` is skipped
PredictNoUrl ==
  /\ pc # "inflight"
  /\ UrlMissing(api_url)
  /\ posts' = 0
  /\ payload' = None
  /\ Finish("no_url", None, <<StError("API_URL environment variable is not set.")>>)

\* Predict pressed, endpoint configured: the payload is built and requests.post is called
PredictSend ==
  /\ pc # "inflight"
  /\ ~UrlMissing(api_url)
  /\ pc' = "inflight"
  /\ posts' = 1
  /\ payload' = BuildPayload(feat)
  /\ net' = "none"
  /\ result' = None
  /\ extracted' = Unbound
  /\ pred_value' = Unbound
  /\ raised' = "none"
  /\ uncaught' = "none"
  /\ ui' = <<>>
  /\ UNCHANGED <<api_url, feat>>

\* an exception escapes get_prediction and ends the script run
Escape(outcome, exc) ==
  /\ pc' = "done"
  /\ net' = outcome
  /\ uncaught' = exc
  /\ UNCHANGED <<api_url, feat, result, extracted, pred_value, raised, ui>>

\* variant: a client that reissues the request until MaxAttempts
RecvTransportError_Retry ==
  /\ pc = "inflight"
  /\ IF posts < MaxAttempts
     THEN /\ posts' = posts + 1
          /\ UNCHANGED <<api_url, feat, pc, payload, net, result, extracted, pred_value, raised, uncaught, ui>>
     ELSE /\ \E e \in TransportErrors :
               Finish("transport_error", None, <<StErrorExc("HTTP Request failed", e)>>)
          /\ UNCHANGED <<posts, payload>>

\* requests.post raises
RecvTransportError ==
  /\ pc = "inflight"
  /\ UNCHANGED <<posts, payload>>
  /\ \E e \in TransportErrors :
       IF RequestHandlerCatches(e)
       THEN Finish("transport_error", None, <<StErrorExc("HTTP Request failed", e)>>)
       ELSE Escape("transport_error", e)

\* the body is not JSON: response.json() raises
RecvNonJson ==
  /\ pc = "inflight"
  /\ UNCHANGED <<posts, payload>>
  /\ IF JsonHandlerCatches("JSONDecodeError")
     THEN Finish("non_json", None, <<StError("API did not return valid JSON."), StWrite("response.text")>>)
     ELSE IF RequestHandlerCatches("JSONDecodeError")
     THEN Finish("non_json", None, <<StErrorExc("HTTP Request failed", "JSONDecodeError")>>)
     ELSE Escape("non_json", "JSONDecodeError")

\* the body is JSON: get_prediction returns it and the handler normalises it
RecvJson ==
  /\ pc = "inflight"
  /\ UNCHANGED <<posts, payload>>
  /\ \E r \in Responses : Finish("json", r, <<>>)

Next ==
  \/ ChangeDecimal
  \/ ChangeIsRed
  \/ PredictNoUrl
  \/ PredictSend
  \/ RecvTransportError
  \/ RecvNonJson
  \/ RecvJson

Spec == Init /\ [][Next]_vars

----------------------------------------------------------------------------
(* Payload formatting over a wide range of one decimal input at a time *)

InitFormat ==
  /\ api_url = [set |-> TRUE, val |-> "https://model.example/predict"]
  /\ \E f \in DecimalFields, x \in WideDecimals : feat = [WidgetDefaults EXCEPT ![f] = x]
  /\ pc = "idle"
  /\ posts = 0
  /\ payload = None
  /\ net = "none"
  /\ result = None
  /\ extracted = Unbound
  /\ pred_value = Unbound
  /\ raised = "none"
  /\ uncaught = "none"
  /\ ui = <<>>

NextFormat ==
  \/ PredictSend
  \/ RecvTransportError

SpecFormat == InitFormat /\ [][NextFormat]_vars

----------------------------------------------------------------------------
(* Properties *)

UrlConfigured == api_url.set /\ api_url.val # ""

ShownText(kind, text) == \E i \in 1..Len(ui) : ui[i].kind = kind /\ ui[i].text = text

ShownVal(kind, text, v) == \E i \in 1..Len(ui) : ui[i].kind = kind /\ ui[i].text = text /\ ui[i].val = v

PredictionShown == Shown("metric") \/ Shown("markdown") \/ Shown("plotly_chart")

\* the string is [-]digits.dd
IsFixed2(s) ==
  LET b == Unsigned(s)
  IN /\ Len(b) >= 4
     /\ b[Len(b) - 2] = "."
     /\ \A i \in 1..Len(b) : i # Len(b) - 2 => IsDigit(b[i])

\* the number of hundredths a [-]digits.dd string denotes
FixedHundredths(s) ==
  LET n == DigitsToNat(SelectSeq(Unsigned(s), IsDigit))
  IN IF s[1] = "-" THEN -n ELSE n

Abs(n) == IF n < 0 THEN -n ELSE n

\* float() rejects the value: a container, or a string that is not a number
NotConvertible(v) ==
  \/ v.t \in {"list", "obj"}
  \/ v.t = "str" /\ ~IsDecimalString(v.s)

\* C1: with API_URL unset or empty no HTTP POST is ever issued, and a finished predict
\* action has reported the configuration error and returned no result.
C1_NoUrlNoPost ==
  ~UrlConfigured =>
    /\ posts = 0
    /\ payload = None
    /\ pc # "inflight"
    /\ pc = "done" =>
         /\ result = None
         /\ ShownText("error", "API_URL environment variable is not set.")
         /\ ~PredictionShown

C1_Witness ==
  /\ pc = "done"
  /\ api_url.set /\ api_url.val = ""
  /\ posts = 0
  /\ ShownText("error", "API_URL environment variable is not set.")

\* C2: for every scalar (or null) v, a response whose result is [[v]], [v] or v yields the
\* extracted value v: the nested shape is tried before the flat one, the flat one before
\* the scalar.
C2_ThreeShapesSameValue ==
  (pc = "done" /\ net = "json" /\ result.t = "obj" /\ "result" \in DOMAIN result.fields) =>
    \A v \in ScalarValues \cup {None} :
      result.fields.result \in {Nested(v), Flat(v), v} => extracted = v

C2_Witness ==
  /\ pc = "done"
  /\ result = Obj(Nested(JNum(MaxNum)), Absent, Absent)
  /\ extracted = JNum(MaxNum)
  /\ ShownVal("plotly_chart", "Quality Points", JNum(MaxNum))

\* C3: a parsed JSON object whose result field is absent or null (the object with no
\* fields included) is reported with a visible error, and no prediction, metrics or gauge
\* are displayed.
C3_MissingResultReported ==
  (pc = "done" /\ net = "json" /\ result.t = "obj" /\ DictGet(result, "result", None) = None) =>
    Shown("error") /\ ~PredictionShown

\* C4: when the result yields a convertible value the prediction is displayed, with model
\* version "Unknown" if release.model_version_number is missing at any level and response
\* time 0 if model_time_in_ms is missing.
C4_MetadataNeverFails ==
  (pc = "done" /\ net = "json" /\ result.t = "obj"
     /\ extracted \notin {Unbound, None} /\ ~NotConvertible(extracted)) =>
    /\ Shown("markdown") /\ Shown("plotly_chart")
    /\ ("release" \notin DOMAIN result.fields
          \/ result.fields.release.t # "obj"
          \/ "model_version_number" \notin DOMAIN result.fields.release.fields)
         => ShownVal("metric", "Model Version", JStr(Chars("Unknown")))
    /\ "model_time_in_ms" \notin DOMAIN result.fields
         => ShownVal("metric", "Response Time", JInt(0))

\* C5: in every payload is_red is the integer 0 or the integer 1.
C5_IsRedZeroOrOne ==
  payload # None =>
    /\ payload.fields.data.fields.is_red.t = "int"
    /\ payload.fields.data.fields.is_red.n \in {0, 1}

\* the finished action hit one of the five errors of the taxonomy
ActionFailed ==
  /\ pc = "done"
  /\ \/ net \in {"no_url", "transport_error", "non_json"}
     \/ /\ net = "json"
        /\ result.t = "obj"
        /\ \/ DictGet(result, "result", None) = None
           \/ extracted = None
           \/ extracted # Unbound /\ NotConvertible(extracted)

\* C6: every error of a predict action is caught and reported as a visible message, no
\* exception escapes, and a predict action starts from nothing the previous one left.
C6_ErrorsTerminalForActionOnly ==
  /\ [](ActionFailed => (Shown("error") /\ ~PredictionShown))
  /\ [](uncaught = "none")
  /\ [][(pc # "inflight" /\ pc' # "idle") =>
          /\ result' = None /\ extracted' = Unbound /\ pred_value' = Unbound /\ raised' = "none"
          /\ posts' <= 1
          /\ \A i \in 1..Len(ui') : ui'[i] = StError("API_URL environment variable is not set.")]_vars

\* C7: an extracted value that is not null and cannot be converted to a float is reported
\* with a visible error, and no quality estimate or gauge is displayed.
C7_NonNumericReported ==
  (pc = "done" /\ net = "json" /\ extracted \notin {Unbound, None} /\ NotConvertible(extracted)) =>
    /\ Shown("error")
    /\ ~Shown("markdown")
    /\ ~Shown("plotly_chart")
    /\ uncaught = "none"

C7_Witness ==
  /\ pc = "done"
  /\ result = Obj(JStr(Chars("not-a-number")), Absent, Absent)
  /\ extracted = JStr(Chars("not-a-number"))
  /\ ShownVal("error", "Error parsing API response", [t |-> "exc", cls |-> "ValueError"])

\* C8: in every payload density, volatile_acidity, chlorides and alcohol are strings of the
\* form [-]digits.dd whose value is the input rounded to the nearest hundredth.
C8_TwoDecimalStrings ==
  payload # None =>
    \A f \in DecimalFields :
      LET p == payload.fields.data.fields[f]
      IN /\ p.t = "str"
         /\ IsFixed2(p.s)
         /\ 2 * Abs(FloatDen * FixedHundredths(p.s) - 100 * feat[f]) <= FloatDen

C8_Witness ==
  /\ payload # None
  /\ feat.chlorides = FloatDen
  /\ payload.fields.data.fields.chlorides = JStr(<<"1", ".", "0", "0">>)
  /\ payload.fields.data.fields.density = JStr(<<"0", ".", "9", "9">>)

\* C9: a predict action issues at most one HTTP POST, exactly one when the endpoint is
\* configured, whatever the outcome of the request.
C9_SinglePost ==
  /\ posts <= 1
  /\ pc \in {"inflight", "done"} => posts = (IF UrlConfigured THEN 1 ELSE 0)

C9_Witness ==
  /\ pc = "done"
  /\ net = "transport_error"
  /\ posts = 1
  /\ Shown("error")

\* C10: an exception raised while normalising a parsed response is caught and shown as an
\* error message together with the raw response.
C10_NormalizationExceptionsSurfaced ==
  (pc = "done" /\ raised # "none") =>
    /\ uncaught = "none"
    /\ ShownVal("error", "Error parsing API response", [t |-> "exc", cls |-> raised])
    /\ ShownVal("json", "Debug: View Raw Response", result)
    /\ ~PredictionShown

C10_Witness ==
  /\ pc = "done"
  /\ result = Obj(JList(<<JList(<<>>)>>), Absent, Absent)
  /\ raised = "IndexError"
  /\ ShownVal("json", "Debug: View Raw Response", result)

====
